---- MODULE Spec2Model ----
(***************************************************************************)
(* Order-total microservice (src/order_total/src/main.rs).                 *)
(*                                                                         *)
(* One hyper server dispatches every inbound request to handle_request,    *)
(* one logical task per request.  A task runs handle_request from its      *)
(* entry to the next await point in one step; the await points are         *)
(* hyper::body::to_bytes (line 69), RequestBuilder::send (line 77) and     *)
(* Response::text (line 80).  The Rate Lookup Service and the inbound      *)
(* body stream are the environment: they resolve the awaited futures.      *)
(***************************************************************************)
EXTENDS Integers, Sequences, FiniteSets, TLC

(***************************************************************************)
(* f32: IEEE-754 binary32, round to nearest, ties to even.                 *)
(* A value is [c, s, m, e]: class c ("fin", "inf", "nan"), sign s (0, 1),  *)
(* and for a finite value the magnitude m * 2^e with either                *)
(* 2^23 <= m < 2^24 and -149 <= e <= 104 (normal), or m < 2^23 and         *)
(* e = -149 (subnormal), or m = 0 and e = 0 (zero).                        *)
(***************************************************************************)
Pow2(k) == 2 ^ k

RECURSIVE BitLen(_)
BitLen(n) == IF n = 0 THEN 0 ELSE 1 + BitLen(n \div 2)

Max(a, b) == IF a >= b THEN a ELSE b
Min(a, b) == IF a <= b THEN a ELSE b

F32Zero(s) == [c |-> "fin", s |-> s, m |-> 0, e |-> 0]
F32Inf(s) == [c |-> "inf", s |-> s, m |-> 0, e |-> 0]
F32NaN == [c |-> "nan", s |-> 0, m |-> 0, e |-> 0]

\* The f32 nearest to (-1)^s * (M + f) * 2^E, where 0 <= f < 1 and
\* sticky says f > 0.  A caller with sticky set passes M of at least 26 bits.
RoundToF32(s, M, E, sticky) ==
  IF M = 0 THEN F32Zero(s)
  ELSE
    LET n == BitLen(M)
        shift == Max(n - 24, (0 - 149) - E)
    IN IF shift <= 0
       THEN LET l == Min(24 - n, E + 149)
                e == E - l
            IN IF e > 104 THEN F32Inf(s)
               ELSE [c |-> "fin", s |-> s, m |-> M * Pow2(l), e |-> e]
       ELSE LET q == IF shift >= 31 THEN 0 ELSE M \div Pow2(shift)
                r == IF shift >= 31 THEN M ELSE M % Pow2(shift)
                half == IF shift >= 32 THEN 0 ELSE Pow2(shift - 1)
                up == IF shift >= 32 THEN FALSE
                      ELSE \/ r > half
                           \/ r = half /\ sticky
                           \/ r = half /\ ~sticky /\ q % 2 = 1
                m0 == IF up THEN q + 1 ELSE q
                m == IF m0 = Pow2(24) THEN Pow2(23) ELSE m0
                e == IF m0 = Pow2(24) THEN E + shift + 1 ELSE E + shift
            IN IF m = 0 THEN F32Zero(s)
               ELSE IF e > 104 THEN F32Inf(s)
               ELSE [c |-> "fin", s |-> s, m |-> m, e |-> e]

\* TLC passes an operator's arguments unevaluated and evaluates them at
\* each use; the arithmetic below binds them to their values first, by a
\* CHOOSE over a set of one element.
F32Round(s, M, E, sticky) ==
  CHOOSE r \in {RoundToF32(s, m, e, sticky) : m \in {M}, e \in {E}} : TRUE

\* An integer literal as f32 (|n| < 2^31).
F32FromInt(n) == IF n < 0 THEN F32Round(1, 0 - n, 0, FALSE) ELSE F32Round(0, n, 0, FALSE)

\* x + y in f32 (core::ops::Add for f32).
SumF32(x, y) ==
  IF x.c = "nan" \/ y.c = "nan" THEN F32NaN
  ELSE IF x.c = "inf" /\ y.c = "inf" THEN (IF x.s = y.s THEN x ELSE F32NaN)
  ELSE IF x.c = "inf" THEN x
  ELSE IF y.c = "inf" THEN y
  ELSE IF x.m = 0 /\ y.m = 0 THEN F32Zero(IF x.s = 1 /\ y.s = 1 THEN 1 ELSE 0)
  ELSE IF x.m = 0 THEN y
  ELSE IF y.m = 0 THEN x
  ELSE
    LET xBig == x.e > y.e \/ (x.e = y.e /\ x.m >= y.m)
        a == IF xBig THEN x ELSE y
        b == IF xBig THEN y ELSE x
        d == a.e - b.e
        A == a.m * 8
        B0 == b.m * 8
        B == IF d >= 27 THEN 1
             ELSE LET bq == B0 \div Pow2(d)
                      br == B0 % Pow2(d)
                  IN IF br # 0 /\ bq % 2 = 0 THEN bq + 1 ELSE bq
        S == IF a.s = b.s THEN A + B ELSE A - B
    IN IF S = 0 THEN F32Zero(0) ELSE F32Round(a.s, S, a.e - 3, FALSE)
F32Add(x, y) == CHOOSE r \in {SumF32(a, b) : a \in {x}, b \in {y}} : TRUE

\* x * y in f32 (core::ops::Mul for f32).  The 48-bit product of the two
\* mantissas is kept as hi * 2^24 + lo.
ProductF32(x, y) ==
  LET s == (x.s + y.s) % 2 IN
  IF x.c = "nan" \/ y.c = "nan" THEN F32NaN
  ELSE IF x.c = "inf" \/ y.c = "inf"
       THEN (IF (x.c = "fin" /\ x.m = 0) \/ (y.c = "fin" /\ y.m = 0)
             THEN F32NaN ELSE F32Inf(s))
  ELSE IF x.m = 0 \/ y.m = 0 THEN F32Zero(s)
  ELSE
    LET a1 == x.m \div Pow2(12)
        a0 == x.m % Pow2(12)
        b1 == y.m \div Pow2(12)
        b0 == y.m % Pow2(12)
        mid == a1 * b0 + a0 * b1
        low == (mid % Pow2(12)) * Pow2(12) + a0 * b0
        lo == low % Pow2(24)
        hi == a1 * b1 + (mid \div Pow2(12)) + (low \div Pow2(24))
        k == Max(6, BitLen(hi))
        M == hi * Pow2(30 - k) + (lo \div Pow2(k - 6))
        sticky == lo % Pow2(k - 6) # 0
    IN F32Round(s, M, x.e + y.e + (k - 6), sticky)

F32Mul(x, y) == CHOOSE r \in {ProductF32(a, b) : a \in {x}, b \in {y}} : TRUE

(***************************************************************************)
(* <f32 as FromStr>::from_str (core::num::dec2flt), the parse of line 103. *)
(* A text is a sequence of one-character strings.  The grammar is          *)
(*   [+|-] ( inf | infinity | nan | digits [. digits] [(e|E) [+|-] digits])*)
(* with at least one digit in the significand, the three words in any      *)
(* case, and nothing before or after (no white space is trimmed).  The     *)
(* result is the f32 nearest to the decimal value, infinite when the value *)
(* exceeds the f32 range.                                                  *)
(***************************************************************************)
DigitChars == {"0", "1", "2", "3", "4", "5", "6", "7", "8", "9"}

DigitVal(ch) ==
  CASE ch = "0" -> 0 [] ch = "1" -> 1 [] ch = "2" -> 2 [] ch = "3" -> 3
    [] ch = "4" -> 4 [] ch = "5" -> 5 [] ch = "6" -> 6 [] ch = "7" -> 7
    [] ch = "8" -> 8 [] ch = "9" -> 9

\* u8::to_ascii_lowercase on the letters of "infinity" and "nan"
AsciiLower(ch) ==
  CASE ch = "I" -> "i" [] ch = "N" -> "n" [] ch = "F" -> "f" [] ch = "T" -> "t"
    [] ch = "Y" -> "y" [] ch = "A" -> "a" [] OTHER -> ch

\* The number of digits of s from index i on.
RECURSIVE DigitRun(_, _)
DigitRun(s, i) ==
  IF i <= Len(s) /\ s[i] \in DigitChars THEN 1 + DigitRun(s, i + 1) ELSE 0

\* The value of the n digits of s from index i on, after acc.
RECURSIVE DigitsValue(_, _, _, _)
DigitsValue(s, i, n, acc) ==
  IF n = 0 THEN acc ELSE DigitsValue(s, i + 1, n - 1, acc * 10 + DigitVal(s[i]))

RECURSIVE DecLen(_)
DecLen(n) == IF n = 0 THEN 0 ELSE 1 + DecLen(n \div 10)

\* The model computes in 32-bit integers: a decimal whose significand or
\* exponent leaves that window has no value here, and TLC stops on it.
OutOfWindow == CHOOSE x \in {} : TRUE

\* Long division, three bits a step, of (M + r / den) * 2^E with r < den
\* and den < 2^28: the quotient's bits until it has 26 of them.
RECURSIVE DivBits(_, _, _, _)
DivBits(M, r, den, E) ==
  IF M >= Pow2(25) THEN [M |-> M, r |-> r, E |-> E]
  ELSE CHOOSE d \in {DivBits(m, q, den, E - 3) :
                       m \in {8 * M + ((8 * r) \div den)},
                       q \in {(8 * r) % den}} : TRUE

\* The f32 nearest to (-1)^s * n * 10^p.
NearestF32(s, n, p) ==
  IF n = 0 THEN F32Zero(s)
  ELSE IF p >= 0
  THEN IF DecLen(n) + p > 39 THEN F32Inf(s)
       ELSE IF p <= 13 /\ n <= (Pow2(30) - 1 + Pow2(30)) \div (5 ^ p)
            THEN F32Round(s, n * (5 ^ p), p, FALSE)
       ELSE OutOfWindow
  ELSE LET k == 0 - p IN
       IF DecLen(n) - k < 0 - 46 THEN F32Zero(s)
       ELSE IF k <= 12
            THEN LET den == 5 ^ k
                     up == Max(0, 30 - BitLen(n))
                     scaled == n * Pow2(up)
                     d == DivBits(scaled \div den, scaled % den, den, 0 - up)
                 IN F32Round(s, d.M, d.E - k, d.r # 0)
       ELSE OutOfWindow

DecimalToF32(s, n, p) ==
  CHOOSE r \in {NearestF32(s, m, q) : m \in {n}, q \in {p}} : TRUE

ParseErr == [ok |-> FALSE, v |-> F32NaN]
ParseOk(v) == [ok |-> TRUE, v |-> v]

\* parse_inf_nan: the whole rest is one of the three words.
parse_inf_nan(s, negative) ==
  LET w == [i \in 1..Len(s) |-> AsciiLower(s[i])] IN
  IF w = <<"n", "a", "n">> THEN ParseOk(F32NaN)
  ELSE IF w = <<"i", "n", "f">> \/ w = <<"i", "n", "f", "i", "n", "i", "t", "y">>
       THEN ParseOk(F32Inf(IF negative THEN 1 ELSE 0))
  ELSE ParseErr

\* parse_number: significand digits, optional fraction, optional exponent,
\* and nothing left over.  [ok, n, p]: the decimal n * 10^p.
parse_number(s) ==
  LET nInt == DigitRun(s, 1)
      dot == nInt + 1 <= Len(s) /\ s[nInt + 1] = "."
      fracAt == nInt + 2
      nFrac == IF dot THEN DigitRun(s, fracAt) ELSE 0
      expAt == IF dot THEN fracAt + nFrac ELSE nInt + 1
      hasExp == expAt <= Len(s) /\ s[expAt] \in {"e", "E"}
      expSign == hasExp /\ expAt + 1 <= Len(s) /\ s[expAt + 1] \in {"-", "+"}
      expDigitsAt == IF expSign THEN expAt + 2 ELSE expAt + 1
      nExp == IF hasExp THEN DigitRun(s, expDigitsAt) ELSE 0
      end == IF hasExp THEN expDigitsAt + nExp ELSE expAt
      expVal == DigitsValue(s, expDigitsAt, nExp, 0)
      exponent == IF expSign /\ s[expAt + 1] = "-" THEN 0 - expVal ELSE expVal
      mantissa == DigitsValue(s, fracAt, nFrac, DigitsValue(s, 1, nInt, 0))
  IN IF nInt + nFrac = 0 THEN [ok |-> FALSE, n |-> 0, p |-> 0]
     ELSE IF hasExp /\ nExp = 0 THEN [ok |-> FALSE, n |-> 0, p |-> 0]
     ELSE IF end <= Len(s) THEN [ok |-> FALSE, n |-> 0, p |-> 0]
     ELSE [ok |-> TRUE, n |-> mantissa, p |-> exponent - nFrac]

\* dec2flt: [ok, v], Ok(v) or Err.
dec2flt(text) ==
  IF Len(text) = 0 THEN ParseErr
  ELSE LET negative == text[1] = "-"
           s == IF text[1] \in {"-", "+"} THEN Tail(text) ELSE text
       IN IF Len(s) = 0 THEN ParseErr
          ELSE LET num == parse_number(s) IN
               IF num.ok
               THEN ParseOk(DecimalToF32(IF negative THEN 1 ELSE 0, num.n, num.p))
               ELSE parse_inf_nan(s, negative)

\* str::trim: the text without its leading and trailing white space.
RECURSIVE TrimStart(_)
TrimStart(text) ==
  IF Len(text) > 0 /\ text[1] \in {" ", "\n"} THEN TrimStart(Tail(text)) ELSE text
RECURSIVE TrimEnd(_)
TrimEnd(text) ==
  IF Len(text) > 0 /\ text[Len(text)] \in {" ", "\n"}
  THEN TrimEnd(SubSeq(text, 1, Len(text) - 1)) ELSE text

\* Variant of line 103 that trims first: body_text.trim().parse::<f32>()
ParseF32Trimmed(text) == dec2flt(TrimEnd(TrimStart(text)))

\* body_text.parse::<f32>() (line 103)
ParseF32(text) == dec2flt(text)

(***************************************************************************)
(* JSON and the Order record (lines 21-30).                                *)
(* A value is [t |-> "int", i], [t |-> "float", f] (f an f32),             *)
(* [t |-> "string", s], [t |-> "null"] or [t |-> "unchecked"]: the text of *)
(* a string that is no JSON string (a byte that is no UTF-8, a lone        *)
(* surrogate escape) and that serde_json passes over without a complaint   *)
(* where it skips a value, and rejects where it reads one.                 *)
(* A body received is a JSON text as serde_json reads it:                  *)
(* [kind |-> "object", pairs |-> the sequence of its members, each a name  *)
(* and a value, in the order written, a name possibly more than once],     *)
(* [kind |-> "array", items |-> a sequence of values], [kind |-> "scalar"] *)
(* (a JSON value that is neither) or [kind |-> "invalid"] (bytes the       *)
(* reader rejects wherever it is).  A body written by the serializer is    *)
(* [kind |-> "object", members |-> a function from member names to         *)
(* values].                                                                *)
(***************************************************************************)
JInt(i) == [t |-> "int", i |-> i]
JFloat(f) == [t |-> "float", f |-> f]
JString(str) == [t |-> "string", s |-> str]
JNull == [t |-> "null"]
JUnchecked == [t |-> "unchecked"]
Member(name, value) == [name |-> name, value |-> value]
JObjectText(pairs) == [kind |-> "object", pairs |-> pairs]
JObject(members) == [kind |-> "object", members |-> members]
JArray(items) == [kind |-> "array", items |-> items]
JScalar == [kind |-> "scalar"]
JInvalid == [kind |-> "invalid"]

\* struct Order: the seven fields and the JSON type serde accepts for each
\* (an integer literal is accepted for an f32 field, not the reverse)
OrderFields ==
  {"order_id", "product_id", "quantity", "subtotal",
   "shipping_address", "shipping_zip", "total"}

FieldAccepts(name) ==
  IF name \in {"order_id", "product_id", "quantity"} THEN {"int"}
  ELSE IF name \in {"subtotal", "total"} THEN {"int", "float"}
  ELSE {"string"}

\* A JSON number read into an f32 field.
JsonToF32(v) == IF v.t = "int" THEN F32FromInt(v.i) ELSE v.f

\* The fields in declaration order (lines 23-29): the order in which the
\* derived Deserialize reads the elements of a JSON array.
FieldOrder ==
  <<"order_id", "product_id", "quantity", "subtotal",
    "shipping_address", "shipping_zip", "total">>

FieldIndex(name) == CHOOSE i \in DOMAIN FieldOrder : FieldOrder[i] = name

\* The positions of an object's members that carry the name.
Occurrences(doc, name) == {i \in DOMAIN doc.pairs : doc.pairs[i].name = name}

\* The JSON value a document gives for each field of Order it has: the
\* member of that name of an object (the first, should there be several),
\* the element at the field's position of an array.
DocFields(doc) ==
  IF doc.kind = "array"
  THEN [name \in {n \in OrderFields : FieldIndex(n) <= Len(doc.items)} |->
          doc.items[FieldIndex(name)]]
  ELSE [name \in {n \in OrderFields : Occurrences(doc, n) # {}} |->
          doc.pairs[CHOOSE i \in Occurrences(doc, name) :
                      \A j \in Occurrences(doc, name) : i <= j].value]

\* serde_json::from_slice::<Order> (line 70): Ok(order) or Err.  The derived
\* Deserialize takes a JSON object and also a JSON array.  Of an object,
\* a member that is no field of Order is skipped, its value unread,
\* however often its name occurs; a field that is missing is an error and
\* so is a field named twice ("duplicate field").  An array must have
\* exactly seven elements, the field values in declaration order (fewer
\* are an invalid length, more are trailing characters).  Any other JSON
\* value and bytes that are not JSON are an error.  Every integer of the
\* model is within i32, so the range check of an i32 field never fails here.
from_slice(doc) ==
  IF doc.kind \notin {"object", "array"} THEN [ok |-> FALSE]
  ELSE IF doc.kind = "object"
          /\ \E name \in OrderFields : Cardinality(Occurrences(doc, name)) # 1
       THEN [ok |-> FALSE]
  ELSE IF doc.kind = "array" /\ Len(doc.items) # Len(FieldOrder)
       THEN [ok |-> FALSE]
  ELSE IF \E name \in OrderFields :
            DocFields(doc)[name].t \notin FieldAccepts(name)
       THEN [ok |-> FALSE]
  ELSE [ok |-> TRUE,
        order |-> [order_id |-> DocFields(doc)["order_id"].i,
                   product_id |-> DocFields(doc)["product_id"].i,
                   quantity |-> DocFields(doc)["quantity"].i,
                   subtotal |-> JsonToF32(DocFields(doc)["subtotal"]),
                   shipping_address |-> DocFields(doc)["shipping_address"].s,
                   shipping_zip |-> DocFields(doc)["shipping_zip"].s,
                   total |-> JsonToF32(DocFields(doc)["total"])]]

\* serde_json's serialize_f32: a finite value is written as a number (the
\* shortest decimal that reads back as the same f32), NaN and the
\* infinities are written as null.
JsonOfF32(x) == IF x.c = "fin" THEN JFloat(x) ELSE JNull

\* serde_json::to_string_pretty(&order) (line 116).  It has no failing case
\* for Order: the ? of line 116 never returns.
to_string_pretty(order) ==
  JObject([order_id |-> JInt(order.order_id),
           product_id |-> JInt(order.product_id),
           quantity |-> JInt(order.quantity),
           subtotal |-> JsonOfF32(order.subtotal),
           shipping_address |-> JString(order.shipping_address),
           shipping_zip |-> JString(order.shipping_zip),
           total |-> JsonOfF32(order.total)])

(***************************************************************************)
(* Responses.  A body is [kind |-> "text", text] or a JSON document.       *)
(***************************************************************************)
TextBody(str) == [kind |-> "text", text |-> str]

\* The three headers response_build attaches (lines 131-133).
CorsHeaders ==
  {<<"Access-Control-Allow-Origin", "*">>,
   <<"Access-Control-Allow-Methods", "GET, POST, OPTIONS">>,
   <<"Access-Control-Allow-Headers", "api,Keep-Alive,User-Agent,Content-Type">>}

\* response_build (lines 129-136): status 200, the CORS headers, the body.
response_build(body) == [status |-> 200, headers |-> CorsHeaders, body |-> body]

\* Response::new(body) (line 64): status 200, no header.
ResponseNew(body) == [status |-> 200, headers |-> {}, body |-> body]

\* Response::default() with its status and body then set (lines 84-86,
\* 96-98, 108-110, 121-122): no header.
ResponseWith(status, body) == [status |-> status, headers |-> {}, body |-> body]

\* The error envelopes of lines 83, 95 and 107.
ErrorEnvelope(message) ==
  JObject([status |-> JString("error"), message |-> JString(message)])

ConnectErrorMessage == "Cannot connect to sales tax rate service"
ReadErrorMessage == "Cannot read response from sales tax rate service"
RateErrorMessage ==
  "The zip code in the order does not have a corresponding sales tax rate."

\* The text of line 65.  TLA+ strings hold no backquote: the two backquotes
\* around the curl command are written here as the character #.
InstructionText ==
  "Try POSTing data to /compute such as: #curl localhost:8002/compute -XPOST -d '...'#"

\* Variant of lines 81-88 that carries the message of line 95.
ConnectErrorResponseMisworded == ResponseWith(500, ErrorEnvelope(ReadErrorMessage))
\* lines 81-88
ConnectErrorResponse == ResponseWith(500, ErrorEnvelope(ConnectErrorMessage))
\* lines 93-100
ReadErrorResponse == ResponseWith(500, ErrorEnvelope(ReadErrorMessage))
\* lines 105-112
RateErrorResponse == ResponseWith(400, ErrorEnvelope(RateErrorMessage))
\* lines 120-124
NotFoundResponse == ResponseWith(404, TextBody(""))

\* Variant of the match of line 59 that tests the path alone for "/".
RoutePathOnly(method, path) ==
  IF method = "OPTIONS" /\ path = "/compute" THEN "options"
  ELSE IF path = "/" THEN "index"
  ELSE IF method = "POST" /\ path = "/compute" THEN "compute"
  ELSE "not_found"

\* The match of line 59 on (method, path).
Route(method, path) ==
  IF method = "OPTIONS" /\ path = "/compute" THEN "options"
  ELSE IF method = "GET" /\ path = "/" THEN "index"
  ELSE IF method = "POST" /\ path = "/compute" THEN "compute"
  ELSE "not_found"

\* Variant of line 115 without the 1.0: order.subtotal * rate
ComputeTotalTaxOnly(order, rate) == F32Mul(order.subtotal, rate)

\* line 115: order.subtotal * (1.0 + rate)
ComputeTotal(order, rate) == F32Mul(order.subtotal, F32Add(F32FromInt(1), rate))

(***************************************************************************)
(* Inputs of the model.                                                    *)
(***************************************************************************)
\* The number of requests the server handles, each in a task of its own.
NumTasks == 2
Tasks == 1..NumTasks

Methods == {"GET", "POST", "OPTIONS", "PUT"}
Paths == {"/", "/compute", "/other"}

\* f32::MAX, (2^24 - 1) * 2^104
F32Max == [c |-> "fin", s |-> 0, m |-> Pow2(24) - 1, e |-> 104]

\* {"order_id":1,"product_id":2,"quantity":3,"subtotal":100.0,
\*  "shipping_address":"1 Main St","shipping_zip":"10001","total":0.0}
ScenarioDoc ==
  JObjectText(<<Member("order_id", JInt(1)), Member("product_id", JInt(2)),
                Member("quantity", JInt(3)),
                Member("subtotal", JFloat(F32FromInt(100))),
                Member("shipping_address", JString("1 Main St")),
                Member("shipping_zip", JString("10001")),
                Member("total", JFloat(F32Zero(0)))>>)

\* An order whose subtotal is the largest f32 and whose total is sent as
\* the integer literal 5, followed by two members "x" that are no field of
\* Order, the second with a string that is no JSON string.
LargeDoc ==
  JObjectText(<<Member("order_id", JInt(7)), Member("product_id", JInt(8)),
                Member("quantity", JInt(1)), Member("subtotal", JFloat(F32Max)),
                Member("shipping_address", JString("2 High St")),
                Member("shipping_zip", JString("99950")),
                Member("total", JInt(5)),
                Member("x", JInt(1)), Member("x", JUnchecked)>>)

\* The scenario's order without its "total" member.
MissingFieldDoc ==
  JObjectText(SubSeq(ScenarioDoc.pairs, 1, Len(FieldOrder) - 1))

\* The scenario's order with "quantity":"3".
WrongTypeDoc ==
  JObjectText([ScenarioDoc.pairs EXCEPT
                 ![FieldIndex("quantity")] = Member("quantity", JString("3"))])

\* The scenario's order followed by a second "total":5.0.
DuplicateFieldDoc ==
  JObjectText(Append(ScenarioDoc.pairs, Member("total", JFloat(F32FromInt(5)))))

\* The scenario's order whose "shipping_zip" is a string that is no JSON
\* string.
UncheckedFieldDoc ==
  JObjectText([ScenarioDoc.pairs EXCEPT
                 ![FieldIndex("shipping_zip")] = Member("shipping_zip", JUnchecked)])

\* [1,2,3,100.0,"1 Main St","10001",0.0]: the scenario's order as a JSON
\* array of its field values in declaration order.
ScenarioArrayDoc ==
  JArray([i \in DOMAIN FieldOrder |-> ScenarioDoc.pairs[i].value])

\* [1,2,3,100.0,"1 Main St","10001"]: the same array without its last element.
ShortArrayDoc ==
  JArray(SubSeq(ScenarioArrayDoc.items, 1, Len(FieldOrder) - 1))

InboundDocs ==
  {ScenarioDoc, LargeDoc, MissingFieldDoc, WrongTypeDoc, DuplicateFieldDoc,
   UncheckedFieldDoc, ScenarioArrayDoc, ShortArrayDoc, JScalar, JInvalid}

\* What the Rate Lookup Service may answer: "0.08", "0.08\n", "", "n/a", "NaN"
RateTexts ==
  {<<"0", ".", "0", "8">>, <<"0", ".", "0", "8", "\n">>, <<>>,
   <<"n", "/", "a">>, <<"N", "a", "N">>}

\* The two values the lazy static of lines 11-19 can take: the default, or
\* the value of the environment variable.
DefaultRateService == "http://localhost:8001/find_rate"
RateServiceValues == {DefaultRateService, "http://rates.internal:9000/find_rate"}

None == <<>>
Some(x) == <<x>>

(***************************************************************************)
(* State.                                                                  *)
(*  alive   the server process runs                                        *)
(*  SALES_TAX_RATE_SERVICE  the lazy static of lines 11-19                 *)
(*  pc      where each task is in handle_request: "idle" (not called yet), *)
(*          "to_bytes", "send", "text" (suspended at lines 69, 77, 80),    *)
(*          "done" (returned Ok(response)), "error" (returned Err),        *)
(*          "panic" (unwound out of line 70)                               *)
(*  req     the request's method and path                                  *)
(*  stream  the inbound body stream: what to_bytes will resolve to         *)
(*  order   the local variable order                                       *)
(*  out     the outbound requests the task has issued, in order            *)
(*  down    the Rate Lookup Service's side of the task's call              *)
(*  resp    the response handle_request returned                           *)
(***************************************************************************)
VARIABLES alive, SALES_TAX_RATE_SERVICE, pc, req, stream, order, out, down, resp

vars == <<alive, SALES_TAX_RATE_SERVICE, pc, req, stream, order, out, down, resp>>

Init ==
  /\ alive = TRUE
  /\ SALES_TAX_RATE_SERVICE \in RateServiceValues
  /\ pc = [t \in Tasks |-> "idle"]
  /\ req = [t \in Tasks |-> None]
  /\ stream = [t \in Tasks |-> [st |-> "none", doc |-> None]]
  /\ order = [t \in Tasks |-> None]
  /\ out = [t \in Tasks |-> <<>>]
  /\ down = [t \in Tasks |-> [st |-> "none", text |-> <<>>]]
  /\ resp = [t \in Tasks |-> None]

\* Task t returns Ok(response).
Return(t, response) ==
  /\ pc' = [pc EXCEPT ![t] = "done"]
  /\ resp' = [resp EXCEPT ![t] = Some(response)]

\* Variant of lines 74-77 that sends the request a second time.
PostRateTwice(t, o) ==
  LET call == [method |-> "POST", url |-> SALES_TAX_RATE_SERVICE,
               body |-> o.shipping_zip]
  IN Append(Append(out[t], call), call)

\* client.post(&*SALES_TAX_RATE_SERVICE).body(order.shipping_zip.clone()).send()
\* (lines 74-76): the task's outbound requests after this one is issued.
PostRate(t, o) ==
  Append(out[t], [method |-> "POST", url |-> SALES_TAX_RATE_SERVICE,
                  body |-> o.shipping_zip])

\* Variant of lines 80, 91-92 that keeps the first text any task received
\* and gives it to every task.
BodyTextShared(t) ==
  LET first == CHOOSE u \in Tasks :
                 /\ down[u].st = "body"
                 /\ \A w \in Tasks : down[w].st = "body" => u <= w
  IN down[first].text

\* The text response.text() resolved to for task t (lines 80, 91-92).
BodyText(t) == down[t].text

\* hyper calls handle_request(req) (line 144); the task runs to the match of
\* line 59 and, on POST /compute, suspends in to_bytes (line 69).
HandleRequest(t, method, path) ==
  /\ alive
  /\ pc[t] = "idle"
  /\ req' = [req EXCEPT ![t] = Some([method |-> method, path |-> path])]
  /\ LET route == Route(method, path) IN
     IF route = "compute"
     THEN /\ pc' = [pc EXCEPT ![t] = "to_bytes"]
          /\ stream' = [stream EXCEPT ![t] = [st |-> "pending", doc |-> None]]
          /\ UNCHANGED resp
     ELSE /\ Return(t, IF route = "options" THEN response_build(TextBody(""))
                       ELSE IF route = "index" THEN ResponseNew(TextBody(InstructionText))
                       ELSE NotFoundResponse)
          /\ UNCHANGED stream
  /\ UNCHANGED <<alive, SALES_TAX_RATE_SERVICE, order, out, down>>

\* Environment: the client's body arrives whole.
StreamData(t, doc) ==
  /\ alive
  /\ stream[t].st = "pending"
  /\ stream' = [stream EXCEPT ![t] = [st |-> "data", doc |-> Some(doc)]]
  /\ UNCHANGED <<alive, SALES_TAX_RATE_SERVICE, pc, req, order, out, down, resp>>

\* Environment: the inbound body stream breaks before its end.
StreamFail(t) ==
  /\ alive
  /\ stream[t].st = "pending"
  /\ stream' = [stream EXCEPT ![t] = [st |-> "failed", doc |-> None]]
  /\ UNCHANGED <<alive, SALES_TAX_RATE_SERVICE, pc, req, order, out, down, resp>>

\* to_bytes resolves (line 69).  Err: the ? returns it from handle_request.
\* Ok: from_slice(..).unwrap() (line 70) panics on Err; the build decides
\* whether the panic unwinds the task only or aborts the process.  On an
\* Order the task issues the outbound POST and suspends in send (line 77).
ResumeToBytes(t) ==
  /\ alive
  /\ pc[t] = "to_bytes"
  /\ stream[t].st \in {"data", "failed"}
  /\ IF stream[t].st = "failed"
     THEN /\ pc' = [pc EXCEPT ![t] = "error"]
          /\ UNCHANGED <<alive, order, out, down>>
     ELSE LET parsed == from_slice(stream[t].doc[1]) IN
          IF ~parsed.ok
          THEN /\ pc' = [pc EXCEPT ![t] = "panic"]
               /\ alive' \in BOOLEAN
               /\ UNCHANGED <<order, out, down>>
          ELSE /\ order' = [order EXCEPT ![t] = Some(parsed.order)]
               /\ out' = [out EXCEPT ![t] = PostRate(t, parsed.order)]
               /\ down' = [down EXCEPT ![t] = [st |-> "called", text |-> <<>>]]
               /\ pc' = [pc EXCEPT ![t] = "send"]
               /\ UNCHANGED alive
  /\ UNCHANGED <<SALES_TAX_RATE_SERVICE, req, stream, resp>>

\* Environment: the call fails at the connection level.
RateRefuse(t) ==
  /\ alive
  /\ down[t].st = "called"
  /\ down' = [down EXCEPT ![t].st = "refused"]
  /\ UNCHANGED <<alive, SALES_TAX_RATE_SERVICE, pc, req, stream, order, out, resp>>

\* Environment: the service's response head arrives.
RateHead(t) ==
  /\ alive
  /\ down[t].st = "called"
  /\ down' = [down EXCEPT ![t].st = "head"]
  /\ UNCHANGED <<alive, SALES_TAX_RATE_SERVICE, pc, req, stream, order, out, resp>>

\* send resolves (lines 77-89): Err is answered 500, Ok(response) goes on
\* to response.text() and suspends there (line 80).
ResumeSend(t) ==
  /\ alive
  /\ pc[t] = "send"
  /\ down[t].st \in {"refused", "head"}
  /\ IF down[t].st = "refused"
     THEN Return(t, ConnectErrorResponse)
     ELSE /\ pc' = [pc EXCEPT ![t] = "text"]
          /\ UNCHANGED resp
  /\ UNCHANGED <<alive, SALES_TAX_RATE_SERVICE, req, stream, order, out, down>>

\* Environment: the response body, read by text(), arrives whole.
RateBody(t, text) ==
  /\ alive
  /\ pc[t] = "text"
  /\ down[t].st = "head"
  /\ down' = [down EXCEPT ![t] = [st |-> "body", text |-> text]]
  /\ UNCHANGED <<alive, SALES_TAX_RATE_SERVICE, pc, req, stream, order, out, resp>>

\* Environment: the response body breaks while text() reads it.
RateBodyFail(t) ==
  /\ alive
  /\ pc[t] = "text"
  /\ down[t].st = "head"
  /\ down' = [down EXCEPT ![t].st = "body_err"]
  /\ UNCHANGED <<alive, SALES_TAX_RATE_SERVICE, pc, req, stream, order, out, resp>>

\* text resolves (lines 80, 91-116): Err is answered 500; a text that is no
\* f32 is answered 400; otherwise the total is set and the order returned.
ResumeText(t) ==
  /\ alive
  /\ pc[t] = "text"
  /\ down[t].st \in {"body", "body_err"}
  /\ IF down[t].st = "body_err"
     THEN /\ Return(t, ReadErrorResponse)
          /\ UNCHANGED order
     ELSE LET rate == ParseF32(BodyText(t)) IN
          IF ~rate.ok
          THEN /\ Return(t, RateErrorResponse)
               /\ UNCHANGED order
          ELSE LET o == [order[t][1] EXCEPT !.total = ComputeTotal(order[t][1], rate.v)]
               IN /\ order' = [order EXCEPT ![t] = Some(o)]
                  /\ Return(t, response_build(to_string_pretty(o)))
  /\ UNCHANGED <<alive, SALES_TAX_RATE_SERVICE, req, stream, out, down>>

Next ==
  \E t \in Tasks :
    \/ \E method \in Methods, path \in Paths : HandleRequest(t, method, path)
    \/ \E doc \in InboundDocs : StreamData(t, doc)
    \/ StreamFail(t)
    \/ ResumeToBytes(t)
    \/ RateRefuse(t)
    \/ RateHead(t)
    \/ ResumeSend(t)
    \/ \E text \in RateTexts : RateBody(t, text)
    \/ RateBodyFail(t)
    \/ ResumeText(t)

Spec == Init /\ [][Next]_vars

\* The runtime polls a task whose awaited future has resolved; nothing
\* obliges the client or the Rate Lookup Service to act.
TaskFairness ==
  \A t \in Tasks :
    /\ WF_vars(ResumeToBytes(t))
    /\ WF_vars(ResumeSend(t))
    /\ WF_vars(ResumeText(t))

FairSpec == Init /\ [][Next]_vars /\ TaskFairness

(***************************************************************************)
(* Properties.                                                             *)
(***************************************************************************)
Answered(t) == resp[t] # None
Response(t) == resp[t][1]
IsComputeRequest(t) ==
  req[t] # None /\ req[t][1].method = "POST" /\ req[t][1].path = "/compute"
\* The document the client sent on task t, once to_bytes has it.
SentDoc(t) == stream[t].doc[1]
\* What line 70 makes of each body, what line 103 makes of each text of the
\* service, the field values of each body that is an object or an array,
\* and subtotal * (1.0 + r) in f32 for each order and each text that parses
\* as r: tabulated over the bodies and texts of the model.
Deserialized == [doc \in InboundDocs |-> from_slice(doc)]
ParsedRate == [text \in RateTexts |-> ParseF32(text)]
SentFields ==
  [doc \in {d \in InboundDocs : d.kind \in {"object", "array"}} |->
     DocFields(doc)]
ExpectedTotal ==
  [doc \in {d \in InboundDocs : Deserialized[d].ok},
   text \in {x \in RateTexts : ParsedRate[x].ok} |->
     F32Mul(Deserialized[doc].order.subtotal,
            F32Add(F32FromInt(1), ParsedRate[text].v))]
\* Task t has read its inbound body and gone past line 70.
PastDeserialize(t) == stream[t].st = "data" /\ pc[t] # "to_bytes"
IsErrorEnvelope(body, message) ==
  /\ body.kind = "object"
  /\ body.members = [status |-> JString("error"), message |-> JString(message)]

\* C1: a POST /compute whose body is not JSON or not an Order is answered
\* 400 with an error envelope of status "error", and the process keeps
\* running.
C1_MalformedBodyAnswered400 ==
  \A t \in Tasks :
    (PastDeserialize(t) /\ ~Deserialized[SentDoc(t)].ok) =>
      /\ alive
      /\ Answered(t)
      /\ Response(t).status = 400
      /\ Response(t).body.kind = "object"
      /\ "status" \in DOMAIN Response(t).body.members
      /\ Response(t).body.members["status"] = JString("error")

\* C2: a POST /compute with a valid Order for which the service returns a
\* text that parses as r is answered 200 with the Order as JSON, its total
\* subtotal * (1 + r) in f32 whatever total the request carried, its other
\* six fields those of the request.  The body is the Order as serde_json
\* writes it: a total that is not finite (r not finite, or the product
\* beyond f32::MAX) appears as null.
C2_TotalIsSubtotalTimesOnePlusRate ==
  \A t \in Tasks :
    (pc[t] = "done" /\ IsComputeRequest(t) /\ down[t].st = "body"
       /\ ParsedRate[down[t].text].ok) =>
      LET sent == SentFields[SentDoc(t)]
          subtotal == JsonToF32(sent["subtotal"])
          total == ExpectedTotal[SentDoc(t), down[t].text]
          body == Response(t).body
      IN /\ Response(t).status = 200
         /\ body.kind = "object"
         /\ DOMAIN body.members = OrderFields
         /\ \A name \in OrderFields \ {"subtotal", "total"} :
              body.members[name] = sent[name]
         /\ body.members["subtotal"] = JsonOfF32(subtotal)
         /\ body.members["total"] = JsonOfF32(total)
         /\ order[t][1].total = total

\* The scenario of the specification: subtotal 100.0 and the text "0.08"
\* give the f32 14155777 * 2^-17 = 108.00000762939453, which is within
\* 1e-6 of 108 and is written 108.00001.  The same order sent as a JSON
\* array of its field values gets the same answer.
C2_Witness ==
  \E t, u \in Tasks :
    /\ pc[t] = "done" /\ pc[u] = "done"
    /\ stream[t].doc = Some(ScenarioDoc)
    /\ stream[u].doc = Some(ScenarioArrayDoc)
    /\ down[t] = [st |-> "body", text |-> <<"0", ".", "0", "8">>]
    /\ down[u] = down[t]
    /\ Response(t).status = 200
    /\ Response(t).body.members["total"]
         = JFloat([c |-> "fin", s |-> 0, m |-> 14155777, e |-> 0 - 17])
    /\ Response(u) = Response(t)

\* C3: when the outbound call fails at the connection level the answer is
\* 500 with the envelope "Cannot connect to sales tax rate service", and no
\* total is computed or returned.
C3_ConnectFailureAnswered500 ==
  \A t \in Tasks :
    (IsComputeRequest(t) /\ down[t].st = "refused" /\ pc[t] # "send") =>
      /\ pc[t] = "done"
      /\ Response(t).status = 500
      /\ IsErrorEnvelope(Response(t).body, "Cannot connect to sales tax rate service")
      /\ order[t][1].total = JsonToF32(SentFields[SentDoc(t)]["total"])

C3_Witness ==
  \E t \in Tasks :
    /\ pc[t] = "done"
    /\ down[t].st = "refused"
    /\ stream[t].doc = Some(LargeDoc)
    /\ Response(t).status = 500

\* The texts of the model that are no f32 for Rust: the empty text, "n/a",
\* and "0.08" followed by a line feed.
NonNumericTexts == {<<>>, <<"n", "/", "a">>, <<"0", ".", "0", "8", "\n">>}

\* C4: when the service answers a readable body that does not parse as a
\* floating-point number, the answer is 400 with the envelope "The zip
\* code in the order does not have a corresponding sales tax rate.", and
\* that answer is given only after the connect and the body read succeeded.
C4_UnparseableRateAnswered400 ==
  \A t \in Tasks :
    /\ (pc[t] = "done" /\ IsComputeRequest(t) /\ down[t].st = "body"
          /\ (~ParsedRate[down[t].text].ok \/ down[t].text \in NonNumericTexts)) =>
         /\ Response(t).status = 400
         /\ IsErrorEnvelope(Response(t).body,
              "The zip code in the order does not have a corresponding sales tax rate.")
    /\ (Answered(t) /\ Response(t).status = 400) => down[t].st = "body"

C4_Witness ==
  \E t \in Tasks :
    /\ pc[t] = "done"
    /\ down[t] = [st |-> "body", text |-> <<"n", "/", "a">>]
    /\ Response(t).status = 400

\* The three pairs the handler serves.
ListedPairs == {<<"OPTIONS", "/compute">>, <<"GET", "/">>, <<"POST", "/compute">>}

\* C5: a request whose (method, path) is none of the three listed pairs is
\* answered 404 with an empty body and causes no outbound call; a listed
\* pair is never answered 404.
C5_UnlistedPairsAnswered404 ==
  \A t \in Tasks :
    req[t] # None =>
      IF <<req[t][1].method, req[t][1].path>> \in ListedPairs
      THEN Answered(t) => Response(t).status # 404
      ELSE /\ pc[t] = "done"
           /\ Response(t).status = 404
           /\ Response(t).body = TextBody("")
           /\ out[t] = <<>>
           /\ down[t].st = "none"

C5_Witness ==
  \E t, u \in Tasks :
    /\ req[t] = Some([method |-> "GET", path |-> "/compute"])
    /\ Response(t).status = 404
    /\ req[u] = Some([method |-> "GET", path |-> "/"])
    /\ Answered(u)
    /\ Response(u).status = 200

\* C6: every response to an OPTIONS or POST request on /compute, error
\* responses included, carries the three CORS headers.
C6_CorsOnEveryComputeResponse ==
  \A t \in Tasks :
    (Answered(t) /\ req[t][1].path = "/compute"
       /\ req[t][1].method \in {"OPTIONS", "POST"}) =>
      CorsHeaders \subseteq Response(t).headers

\* C7: a POST /compute with a valid Order is eventually answered, also when
\* the Rate Lookup Service never answers the call.  (Stated for the runs in
\* which the process stays up.)
C7_ValidOrderEventuallyAnswered ==
  \A t \in Tasks : (order[t] # None) ~> (Answered(t) \/ ~alive)

\* C8: every failure of the POST /compute pipeline ends with handle_request
\* returning a response of status 400 or 500: no Err is returned to the
\* server and the process is not terminated.
C8_FailuresReturnResponses ==
  /\ alive
  /\ \A t \in Tasks :
       (IsComputeRequest(t) /\ pc[t] \notin {"to_bytes", "send", "text"}) =>
         /\ pc[t] = "done"
         /\ Response(t).status \in {200, 400, 500}

\* C9: a POST /compute request causes at most one outbound POST, with the
\* order's shipping_zip as its body: one from the moment the body has
\* deserialized into an Order, none before, and still one after the call
\* failed or its result did not parse; other requests cause none.
C9_AtMostOneOutboundCall ==
  \A t \in Tasks :
    /\ Len(out[t]) <= 1
    /\ Len(out[t]) = 1 <=> order[t] # None
    /\ order[t] # None <=>
         (IsComputeRequest(t) /\ PastDeserialize(t) /\ Deserialized[SentDoc(t)].ok)
    /\ Len(out[t]) = 1 =>
         /\ out[t][1].method = "POST"
         /\ out[t][1].url = SALES_TAX_RATE_SERVICE
         /\ out[t][1].body = SentFields[SentDoc(t)]["shipping_zip"].s

C9_Witness ==
  \E t, u \in Tasks :
    /\ pc[t] = "done"
    /\ down[t].st = "refused"
    /\ Len(out[t]) = 1
    /\ out[t][1].body = "10001"
    /\ pc[u] = "panic"
    /\ out[u] = <<>>

\* The response handle_request gives to a request with task t's method,
\* path and body whose own Rate Lookup call ended as task t's did.
OwnResponse(t) ==
  LET route == Route(req[t][1].method, req[t][1].path) IN
  IF route = "options" THEN response_build(TextBody(""))
  ELSE IF route = "index" THEN ResponseNew(TextBody(InstructionText))
  ELSE IF route = "not_found" THEN NotFoundResponse
  ELSE IF down[t].st = "refused" THEN ConnectErrorResponse
  ELSE IF down[t].st = "body_err" THEN ReadErrorResponse
  ELSE LET rate == ParsedRate[down[t].text]
           o == Deserialized[SentDoc(t)].order
       IN IF ~rate.ok THEN RateErrorResponse
          ELSE response_build(to_string_pretty(
                 [o EXCEPT !.total = ComputeTotal(o, rate.v)]))

\* C10: under every interleaving the response to a request is the one its
\* own method, path, body and Rate Lookup outcome determine, and two
\* requests with the same body and the same returned text get the same
\* total.
C10_ResponseDependsOnOwnRequestOnly ==
  /\ \A t \in Tasks : Answered(t) => Response(t) = OwnResponse(t)
  /\ \A t, u \in Tasks :
       (Answered(t) /\ Answered(u) /\ req[t] = req[u] /\ stream[t] = stream[u]
          /\ down[t] = down[u]) => Response(t) = Response(u)

\* Two requests are in flight with different orders and different answers
\* of the service, and both have been answered.
C10_Witness ==
  \E t, u \in Tasks :
    /\ t # u
    /\ pc[t] = "done" /\ pc[u] = "done"
    /\ stream[t].doc = Some(ScenarioDoc) /\ stream[u].doc = Some(LargeDoc)
    /\ down[t].st = "body" /\ down[u].st = "body"
    /\ down[t].text # down[u].text
    /\ Response(t).status = 200 /\ Response(u).status = 200

====
